---- MODULE Spec2Model ----
(***************************************************************************)
(* A model of the PromQL AST builders and the semantic check of            *)
(* src/parser/ast.rs: the expression tree, value_type, the builder         *)
(* functions (new_*_expr, at_expr, offset_expr) and check_ast with its     *)
(* per-variant checks.                                                     *)
(*                                                                         *)
(* Option<T> is a sequence of length at most one, Result<Expr, String> is  *)
(* a record with a tag, a HashSet is a set, a Vec is a sequence.           *)
(***************************************************************************)
EXTENDS Integers, Sequences, FiniteSets, TLC

VARIABLES res, call, atCalls, offCalls

vars == <<res, call, atCalls, offCalls>>

----------------------------------------------------------------------------
(* Bounds of the model *)

\* deepest nesting of Expr inside Expr that the builder session assembles
MaxDepth == 2

\* longest argument list handed to new_aggregate_expr
MaxArgs == 3

\* longest argument list of a Call handed to check_ast
MaxCallArgs == 5

----------------------------------------------------------------------------
(* Option and Result *)

None == <<>>

Some(x) == <<x>>

IsSome(o) == Len(o) = 1

IsNone(o) == Len(o) = 0

Unwrap(o) == o[1]

Ok(e) == [tag |-> "Ok", val |-> <<e>>, err |-> ""]

Err(m) == [tag |-> "Err", val |-> <<>>, err |-> m]

\* the call did not return: the thread panicked with message m
Panic(m) == [tag |-> "Panic", val |-> <<>>, err |-> m]

IsOk(r) == r.tag = "Ok"

IsErr(r) == r.tag = "Err"

\* no builder has run yet: the caller holds no node
NoResult == [tag |-> "None", val |-> <<>>, err |-> ""]

----------------------------------------------------------------------------
(* Value types, tokens and their classes *)

Vector == "Vector"

Matrix == "Matrix"

Scalar == "Scalar"

String == "String"

ValueType == {Vector, Matrix, Scalar, String}

\* Display of a ValueType, as the diagnostics print it
value_type_display(t) ==
    CASE t = Vector -> "vector"
      [] t = Matrix -> "matrix"
      [] t = Scalar -> "scalar"
      [] t = String -> "string"

T_ADD == "T_ADD"

T_EQLC == "T_EQLC"

T_LAND == "T_LAND"

T_LOR == "T_LOR"

T_LUNLESS == "T_LUNLESS"

T_SUM == "T_SUM"

T_TOPK == "T_TOPK"

T_BOTTOMK == "T_BOTTOMK"

T_QUANTILE == "T_QUANTILE"

T_COUNT_VALUES == "T_COUNT_VALUES"

T_BOOL == "T_BOOL"

TokenId ==
    {T_ADD, T_EQLC, T_LAND, T_LOR, T_LUNLESS, T_SUM, T_TOPK, T_BOTTOMK,
     T_QUANTILE, T_COUNT_VALUES, T_BOOL}

token_display(id) ==
    CASE id = T_ADD -> "+"
      [] id = T_EQLC -> "=="
      [] id = T_LAND -> "and"
      [] id = T_LOR -> "or"
      [] id = T_LUNLESS -> "unless"
      [] id = T_SUM -> "sum"
      [] id = T_TOPK -> "topk"
      [] id = T_BOTTOMK -> "bottomk"
      [] id = T_QUANTILE -> "quantile"
      [] id = T_COUNT_VALUES -> "count_values"
      [] id = T_BOOL -> "bool"

is_set_operator(id) == id \in {T_LAND, T_LOR, T_LUNLESS}

is_comparison_operator(id) == id \in {T_EQLC}

is_operator(id) == id \in {T_ADD, T_EQLC, T_LAND, T_LOR, T_LUNLESS}

is_aggregator(id) ==
    id \in {T_SUM, T_TOPK, T_BOTTOMK, T_QUANTILE, T_COUNT_VALUES}

is_aggregator_with_param(id) ==
    id \in {T_TOPK, T_BOTTOMK, T_QUANTILE, T_COUNT_VALUES}

----------------------------------------------------------------------------
(* f64 values of number literals: a finite magnitude, an infinity or NaN,  *)
(* each with a sign bit                                                    *)

Fin(n) == [k |-> "fin", neg |-> n < 0, m |-> IF n < 0 THEN -n ELSE n]

Inf == [k |-> "inf", neg |-> FALSE, m |-> 0]

NaN == [k |-> "nan", neg |-> FALSE, m |-> 0]

f64_neg(v) == [v EXCEPT !.neg = ~v.neg]

f64_is_nan(v) == v.k = "nan"

f64_is_infinite(v) == v.k = "inf"

\* val <= 0.0 (false for NaN)
f64_le_zero_strict(v) ==
    \/ v.k = "fin" /\ v.neg /\ v.m # 0
    \/ v.k = "inf" /\ v.neg

\* val <= 0.0 (true of -0.0, false of NaN)
f64_le_zero(v) ==
    \/ v.k = "fin" /\ (v.neg \/ v.m = 0)
    \/ v.k = "inf" /\ v.neg

----------------------------------------------------------------------------
(* The expression tree *)

NumberLiteral(v) == [kind |-> "NumberLiteral", val |-> v]

\* the string is boxed in a record, so that the val of a StringLiteral and
\* the val of a NumberLiteral are comparable
StringLiteral(s) == [kind |-> "StringLiteral", val |-> [s |-> s]]

VectorSelector(name, matchers, offset, at) ==
    [kind |-> "VectorSelector", name |-> name, matchers |-> matchers,
     offset |-> offset, at |-> at]

MatrixSelector(vs, range) ==
    [kind |-> "MatrixSelector", vector_selector |-> vs, range |-> range]

SubqueryExpr(e, offset, at, range, step) ==
    [kind |-> "Subquery", expr |-> e, offset |-> offset, at |-> at,
     range |-> range, step |-> step]

ParenExpr(e) == [kind |-> "Paren", expr |-> e]

UnaryExpr(e) == [kind |-> "Unary", expr |-> e]

BinaryExpr(op, lhs, rhs, modifier) ==
    [kind |-> "Binary", op |-> op, lhs |-> lhs, rhs |-> rhs,
     modifier |-> modifier]

AggregateExpr(op, e, param, modifier) ==
    [kind |-> "Aggregate", op |-> op, expr |-> e, param |-> param,
     modifier |-> modifier]

Call(func, args) == [kind |-> "Call", func |-> func, args |-> args]

\* an opaque host node: the core reads only its declared value type
Extension(t) == [kind |-> "Extension", value_type |-> t]

Function(name, arg_types, variadic, return_type) ==
    [name |-> name, arg_types |-> arg_types, variadic |-> variadic,
     return_type |-> return_type]

RECURSIVE value_type_either_scalar(_)
value_type_either_scalar(e) ==
    CASE e.kind = "Aggregate" -> Vector
      [] e.kind = "Unary" -> value_type_either_scalar(e.expr)
      [] e.kind = "Binary" ->
            IF value_type_either_scalar(e.lhs) = Scalar
               \/ value_type_either_scalar(e.rhs) = Scalar
            THEN Scalar
            ELSE Vector
      [] e.kind = "Paren" -> value_type_either_scalar(e.expr)
      [] e.kind = "Subquery" -> Matrix
      [] e.kind = "NumberLiteral" -> Scalar
      [] e.kind = "StringLiteral" -> String
      [] e.kind = "VectorSelector" -> Vector
      [] e.kind = "MatrixSelector" -> Matrix
      [] e.kind = "Call" -> e.func.return_type
      [] e.kind = "Extension" -> e.value_type

RECURSIVE value_type(_)
value_type(e) ==
    CASE e.kind = "Aggregate" -> Vector
      [] e.kind = "Unary" -> value_type(e.expr)
      [] e.kind = "Binary" ->
            IF value_type(e.lhs) = Scalar /\ value_type(e.rhs) = Scalar
            THEN Scalar
            ELSE Vector
      [] e.kind = "Paren" -> value_type(e.expr)
      [] e.kind = "Subquery" -> Matrix
      [] e.kind = "NumberLiteral" -> Scalar
      [] e.kind = "StringLiteral" -> String
      [] e.kind = "VectorSelector" -> Vector
      [] e.kind = "MatrixSelector" -> Matrix
      [] e.kind = "Call" -> e.func.return_type
      [] e.kind = "Extension" -> e.value_type

scalar_value(e) == IF e.kind = "NumberLiteral" THEN Some(e.val) ELSE None

\* nesting of Expr inside Expr (a MatrixSelector holds a VectorSelector
\* record, not an Expr)
RECURSIVE Depth(_)
Max(a, b) == IF a >= b THEN a ELSE b

RECURSIVE MaxDepthOf(_)
MaxDepthOf(s) ==
    IF Len(s) = 0 THEN 0 ELSE Max(Depth(Head(s)) + 1, MaxDepthOf(Tail(s)))

Depth(e) ==
    CASE e.kind \in {"Unary", "Paren", "Subquery"} -> Depth(e.expr) + 1
      [] e.kind = "Binary" -> Max(Depth(e.lhs), Depth(e.rhs)) + 1
      [] e.kind = "Aggregate" ->
            Max(Depth(e.expr) + 1, MaxDepthOf(e.param))
      [] e.kind = "Call" -> MaxDepthOf(e.args)
      [] OTHER -> 0

----------------------------------------------------------------------------
(* Label matchers (module label): a Matchers is an unordered collection    *)

METRIC_NAME == "__name__"

Matcher(op, name, value) == [op |-> op, name |-> name, value |-> value]

new_eq_metric_matcher(name) == Matcher("Equal", METRIC_NAME, name)

\* the regular expressions of the model that match the empty string
ReMatchesEmpty(value) == value \in {"", ".*"}

\* Matcher::is_match("")
matcher_is_match_empty(m) ==
    CASE m.op = "Equal" -> m.value = ""
      [] m.op = "NotEqual" -> m.value # ""
      [] m.op = "Re" -> ReMatchesEmpty(m.value)
      [] m.op = "NotRe" -> ~ReMatchesEmpty(m.value)

\* no matchers, or every matcher accepts the empty string
is_empty_matchers(ms) == \A m \in ms : matcher_is_match_empty(m)

matcher_op_display(op) ==
    CASE op = "Equal" -> "="
      [] op = "NotEqual" -> "!="
      [] op = "Re" -> "=~"
      [] op = "NotRe" -> "!~"

\* Display of a Matcher: name, operator, quoted value
matcher_display(m) ==
    m.name \o matcher_op_display(m.op) \o "\"" \o m.value \o "\""

\* the textual forms of the matchers of name `name`
find_matchers(ms, name) == {matcher_display(m) : m \in {x \in ms : x.name = name}}

\* the textual forms of the metric-name matchers of the model, in the byte
\* order of String's Ord
MatcherTextOrder ==
    <<"__name__!=\"\"", "__name__=\"\"", "__name__=\"bar\"",
      "__name__=\"foo\"", "__name__=~\".*\"">>

TextRank(t) == CHOOSE i \in 1..Len(MatcherTextOrder) : MatcherTextOrder[i] = t

\* du.sort(): the sequence of the texts of S in ascending order
RECURSIVE SortTexts(_)
SortTexts(S) ==
    IF S = {} THEN <<>>
    ELSE LET least == CHOOSE t \in S : \A u \in S : TextRank(t) <= TextRank(u)
         IN <<least>> \o SortTexts(S \ {least})

----------------------------------------------------------------------------
(* Modifiers *)

Include(labels) == [kind |-> "Include", labels |-> labels]

Exclude(labels) == [kind |-> "Exclude", labels |-> labels]

\* LabelModifier::is_on
is_on(lm) == lm.kind = "Include"

OneToOne == [kind |-> "OneToOne", labels |-> {}]

ManyToMany == [kind |-> "ManyToMany", labels |-> {}]

ManyToOne(labels) == [kind |-> "ManyToOne", labels |-> labels]

OneToMany(labels) == [kind |-> "OneToMany", labels |-> labels]

\* VectorMatchCardinality::labels
card_labels(card) ==
    IF card.kind \in {"ManyToOne", "OneToMany"} THEN Some(card.labels) ELSE None

BinModifier(card, matching, return_bool) ==
    [card |-> card, matching |-> matching, return_bool |-> return_bool]

BinModifier_default == BinModifier(OneToOne, None, FALSE)

with_card(m, card) == [m EXCEPT !.card = card]

\* BinModifier::is_labels_joint
modifier_is_labels_joint(m) ==
    /\ IsSome(card_labels(m.card))
    /\ IsSome(m.matching)
    /\ Unwrap(m.matching).labels \cap Unwrap(card_labels(m.card)) # {}

\* all orders in which the elements of a hash set can be iterated
RECURSIVE IterationOrders(_)
IterationOrders(S) ==
    IF S = {} THEN {<<>>}
    ELSE UNION {{<<x>> \o t : t \in IterationOrders(S \ {x})} : x \in S}

\* BinModifier::intersect_labels: the Vec collected from the iteration of
\* HashSet::intersection, whose order is not specified; the set of the
\* vectors it can return
modifier_intersect_labels(m) ==
    IF IsSome(card_labels(m.card)) /\ IsSome(m.matching)
    THEN {Some(v) : v \in IterationOrders(
              Unwrap(m.matching).labels \cap Unwrap(card_labels(m.card)))}
    ELSE {None}

\* is_matching_on that takes `ignoring` for `on`
modifier_is_matching_on_inverted(m) ==
    IsSome(m.matching) /\ ~is_on(Unwrap(m.matching))

\* BinModifier::is_matching_on
modifier_is_matching_on(m) == IsSome(m.matching) /\ is_on(Unwrap(m.matching))

\* BinModifier::is_matching_labels_not_empty
modifier_is_matching_labels_not_empty(m) ==
    IsSome(m.matching) /\ Unwrap(m.matching).labels # {}

\* BinaryExpr::is_matching_on
is_matching_on(ex) ==
    IsSome(ex.modifier) /\ modifier_is_matching_on(Unwrap(ex.modifier))

\* BinaryExpr::is_matching_labels_not_empty
is_matching_labels_not_empty(ex) ==
    IsSome(ex.modifier)
    /\ modifier_is_matching_labels_not_empty(Unwrap(ex.modifier))

\* return_bool that is true of any modifier
return_bool_any_modifier(ex) == IsSome(ex.modifier)

\* BinaryExpr::return_bool
return_bool(ex) == IsSome(ex.modifier) /\ Unwrap(ex.modifier).return_bool

\* BinaryExpr::is_labels_joint
is_labels_joint(ex) ==
    IsSome(ex.modifier) /\ modifier_is_labels_joint(Unwrap(ex.modifier))

\* BinaryExpr::intersect_labels
intersect_labels(ex) ==
    IF IsSome(ex.modifier)
    THEN modifier_intersect_labels(Unwrap(ex.modifier))
    ELSE {None}

----------------------------------------------------------------------------
(* Offsets and @ modifiers *)

Pos(d) == [kind |-> "Pos", d |-> d]

Neg(d) == [kind |-> "Neg", d |-> d]

Start == [kind |-> "Start", t |-> 0]

End == [kind |-> "End", t |-> 0]

At(t) == [kind |-> "At", t |-> t]

----------------------------------------------------------------------------
(* Builders *)

\* impl Neg for Expr
neg(e) ==
    IF e.kind = "NumberLiteral"
    THEN NumberLiteral(f64_neg(e.val))
    ELSE UnaryExpr(e)

new_vector_selector(name, matchers) ==
    Ok(VectorSelector(name, matchers, None, None))

new_unary_expr(e) ==
    CASE e.kind = "StringLiteral" ->
            Err("unary expression only allowed on expressions of type scalar or vector, got: string")
      [] e.kind = "MatrixSelector" ->
            Err("unary expression only allowed on expressions of type scalar or vector, got: matrix")
      [] OTHER -> Ok(neg(e))

new_subquery_expr(e, range, step) ==
    Ok(SubqueryExpr(e, None, None, range, step))

new_paren_expr(e) == Ok(ParenExpr(e))

\* new_matrix_selector that looks at `at` before `offset`
new_matrix_selector_at_first(e, range) ==
    CASE e.kind = "VectorSelector" /\ IsSome(e.at) ->
            Err("no @ modifiers allowed before range")
      [] e.kind = "VectorSelector" /\ IsNone(e.at) /\ IsSome(e.offset) ->
            Err("no offset modifiers allowed before range")
      [] e.kind = "VectorSelector" /\ IsNone(e.offset) /\ IsNone(e.at) ->
            Ok(MatrixSelector(e, range))
      [] OTHER -> Err("ranges only allowed for vector selectors")

new_matrix_selector(e, range) ==
    CASE e.kind = "VectorSelector" /\ IsSome(e.offset) ->
            Err("no offset modifiers allowed before range")
      [] e.kind = "VectorSelector" /\ IsNone(e.offset) /\ IsSome(e.at) ->
            Err("no @ modifiers allowed before range")
      [] e.kind = "VectorSelector" /\ IsNone(e.offset) /\ IsNone(e.at) ->
            Ok(MatrixSelector(e, range))
      [] OTHER -> Err("ranges only allowed for vector selectors")

\* at_expr that overwrites an `at` already set
\* at_expr that rebuilds the selector fields and loses the offset
at_expr_drops_offset(self, at) ==
    LET already_set_err == Err("@ <timestamp> may not be set multiple times")
    IN CASE self.kind = "VectorSelector" ->
                IF IsNone(self.at)
                THEN Ok([self EXCEPT !.at = Some(at), !.offset = None])
                ELSE already_set_err
         [] self.kind = "MatrixSelector" ->
                IF IsNone(self.vector_selector.at)
                THEN Ok([self EXCEPT !.vector_selector.at = Some(at),
                                     !.vector_selector.offset = None])
                ELSE already_set_err
         [] self.kind = "Subquery" ->
                IF IsNone(self.at)
                THEN Ok([self EXCEPT !.at = Some(at), !.offset = None])
                ELSE already_set_err
         [] OTHER ->
                Err("@ modifier must be preceded by an vector selector or matrix selector or a subquery")

at_expr_overwrite(self, at) ==
    CASE self.kind = "VectorSelector" -> Ok([self EXCEPT !.at = Some(at)])
      [] self.kind = "MatrixSelector" ->
            Ok([self EXCEPT !.vector_selector.at = Some(at)])
      [] self.kind = "Subquery" -> Ok([self EXCEPT !.at = Some(at)])
      [] OTHER ->
            Err("@ modifier must be preceded by an vector selector or matrix selector or a subquery")

at_expr(self, at) ==
    LET already_set_err == Err("@ <timestamp> may not be set multiple times")
    IN CASE self.kind = "VectorSelector" ->
                IF IsNone(self.at)
                THEN Ok([self EXCEPT !.at = Some(at)])
                ELSE already_set_err
         [] self.kind = "MatrixSelector" ->
                IF IsNone(self.vector_selector.at)
                THEN Ok([self EXCEPT !.vector_selector.at = Some(at)])
                ELSE already_set_err
         [] self.kind = "Subquery" ->
                IF IsNone(self.at)
                THEN Ok([self EXCEPT !.at = Some(at)])
                ELSE already_set_err
         [] OTHER ->
                Err("@ modifier must be preceded by an vector selector or matrix selector or a subquery")

\* offset_expr that lets a Paren through
offset_expr_paren(self, offset) ==
    LET already_set_err == Err("offset may not be set multiple times")
    IN CASE self.kind = "VectorSelector" ->
                IF IsNone(self.offset)
                THEN Ok([self EXCEPT !.offset = Some(offset)])
                ELSE already_set_err
         [] self.kind = "MatrixSelector" ->
                IF IsNone(self.vector_selector.offset)
                THEN Ok([self EXCEPT !.vector_selector.offset = Some(offset)])
                ELSE already_set_err
         [] self.kind = "Subquery" ->
                IF IsNone(self.offset)
                THEN Ok([self EXCEPT !.offset = Some(offset)])
                ELSE already_set_err
         [] self.kind = "Paren" -> Ok(self)
         [] OTHER ->
                Err("offset modifier must be preceded by an vector selector or matrix selector or a subquery")

offset_expr(self, offset) ==
    LET already_set_err == Err("offset may not be set multiple times")
    IN CASE self.kind = "VectorSelector" ->
                IF IsNone(self.offset)
                THEN Ok([self EXCEPT !.offset = Some(offset)])
                ELSE already_set_err
         [] self.kind = "MatrixSelector" ->
                IF IsNone(self.vector_selector.offset)
                THEN Ok([self EXCEPT !.vector_selector.offset = Some(offset)])
                ELSE already_set_err
         [] self.kind = "Subquery" ->
                IF IsNone(self.offset)
                THEN Ok([self EXCEPT !.offset = Some(offset)])
                ELSE already_set_err
         [] OTHER ->
                Err("offset modifier must be preceded by an vector selector or matrix selector or a subquery")

new_call(func, args) == Ok(Call(func, args))

new_binary_expr(lhs, op, modifier, rhs) ==
    Ok(BinaryExpr(op, lhs, rhs, modifier))

\* FunctionArgs::first and FunctionArgs::last
args_first(args) == IF Len(args) = 0 THEN None ELSE Some(args[1])

args_last(args) == IF Len(args) = 0 THEN None ELSE Some(args[Len(args)])

\* new_aggregate_expr that takes the parameter from the last argument
new_aggregate_expr_param_last(op, modifier, args) ==
    LET desired_args_count == IF is_aggregator_with_param(op) THEN 2 ELSE 1
        param == IF is_aggregator_with_param(op) THEN args_last(args) ELSE None
    IN IF Len(args) = 0
       THEN Err("no arguments for aggregate expression '"
                \o token_display(op) \o "' provided")
       ELSE IF Len(args) # desired_args_count
       THEN Err("wrong number of arguments for aggregate expression provided, expected "
                \o ToString(desired_args_count) \o ", got "
                \o ToString(Len(args)))
       ELSE Ok(AggregateExpr(op, Unwrap(args_last(args)), param, modifier))

new_aggregate_expr(op, modifier, args) ==
    LET desired_args_count == IF is_aggregator_with_param(op) THEN 2 ELSE 1
        param == IF is_aggregator_with_param(op) THEN args_first(args) ELSE None
    IN IF Len(args) = 0
       THEN Err("no arguments for aggregate expression '"
                \o token_display(op) \o "' provided")
       ELSE IF Len(args) # desired_args_count
       THEN Err("wrong number of arguments for aggregate expression provided, expected "
                \o ToString(desired_args_count) \o ", got "
                \o ToString(Len(args)))
       ELSE IF IsSome(args_last(args))
       THEN Ok(AggregateExpr(op, Unwrap(args_last(args)), param, modifier))
       ELSE Err("aggregate operation needs a single instant vector parameter, but found none")

----------------------------------------------------------------------------
(* check_ast: every check returns the set of the results it can produce    *)
(* (one result, unless the outcome hangs on the iteration order of a hash  *)
(* set)                                                                    *)

\* expect_type that lets a missing value through
expect_type_none_ok(expected, actual, context) ==
    IF IsSome(actual)
    THEN IF Unwrap(actual) = expected
         THEN Ok(TRUE)
         ELSE Err("expected type " \o value_type_display(expected) \o " in "
                  \o context \o ", got "
                  \o value_type_display(Unwrap(actual)))
    ELSE Ok(TRUE)

expect_type(expected, actual, context) ==
    IF IsSome(actual)
    THEN IF Unwrap(actual) = expected
         THEN Ok(TRUE)
         ELSE Err("expected type " \o value_type_display(expected) \o " in "
                  \o context \o ", got "
                  \o value_type_display(Unwrap(actual)))
    ELSE Err("expected type " \o value_type_display(expected) \o " in "
             \o context \o ", got None")

\* the value type of an optional expression: param.as_ref().map(value_type)
map_value_type(o) == IF IsSome(o) THEN Some(value_type(Unwrap(o))) ELSE None

\* a normalisation that always synthesises the modifier
set_operator_modifier_synthesised(modifier) ==
    Some(with_card(BinModifier_default, ManyToMany))

\* a normalisation that only synthesises a missing modifier
set_operator_modifier_no_upgrade(modifier) ==
    IF IsSome(modifier)
    THEN modifier
    ELSE Some(with_card(BinModifier_default, ManyToMany))

\* the normalisation of the modifier of a set operator
set_operator_modifier(modifier) ==
    IF IsSome(modifier)
    THEN IF Unwrap(modifier).card = OneToOne
         THEN Some(with_card(Unwrap(modifier), ManyToMany))
         ELSE modifier
    ELSE Some(with_card(BinModifier_default, ManyToMany))

\* the operand types tested before the set-operator checks
binary_expr_after_labels_types_first(ex0) ==
    LET op_display == token_display(ex0.op)
        lt == value_type(ex0.lhs)
        rt == value_type(ex0.rhs)
        ex == IF is_set_operator(ex0.op)
              THEN [ex0 EXCEPT !.modifier = set_operator_modifier(ex0.modifier)]
              ELSE ex0
    IN IF lt # Scalar /\ lt # Vector
       THEN Err("binary expression must contain only scalar and instant vector types")
       ELSE IF rt # Scalar /\ rt # Vector
       THEN Err("binary expression must contain only scalar and instant vector types")
       ELSE IF is_set_operator(ex0.op) /\ (lt = Scalar \/ rt = Scalar)
       THEN Err("set operator '" \o op_display
                \o "' not allowed in binary scalar expression")
       ELSE IF /\ is_set_operator(ex0.op)
               /\ lt = Vector /\ rt = Vector
               /\ IsSome(ex0.modifier)
               /\ Unwrap(ex0.modifier).card.kind \in {"OneToMany", "ManyToOne"}
       THEN Err("no grouping allowed for '" \o op_display \o "' operation")
       ELSE IF (lt # Vector \/ rt # Vector) /\ is_matching_labels_not_empty(ex)
       THEN Err("vector matching only allowed between vectors")
       ELSE Ok(ex)

\* the checks of a binary expression after the ON/GROUP label check
binary_expr_after_labels(ex0) ==
    LET op_display == token_display(ex0.op)
        lt == value_type(ex0.lhs)
        rt == value_type(ex0.rhs)
        ex == IF is_set_operator(ex0.op)
              THEN [ex0 EXCEPT !.modifier = set_operator_modifier(ex0.modifier)]
              ELSE ex0
    IN IF is_set_operator(ex0.op) /\ (lt = Scalar \/ rt = Scalar)
       THEN Err("set operator '" \o op_display
                \o "' not allowed in binary scalar expression")
       ELSE IF /\ is_set_operator(ex0.op)
               /\ lt = Vector /\ rt = Vector
               /\ IsSome(ex0.modifier)
               /\ Unwrap(ex0.modifier).card.kind \in {"OneToMany", "ManyToOne"}
       THEN Err("no grouping allowed for '" \o op_display \o "' operation")
       ELSE IF lt # Scalar /\ lt # Vector
       THEN Err("binary expression must contain only scalar and instant vector types")
       ELSE IF rt # Scalar /\ rt # Vector
       THEN Err("binary expression must contain only scalar and instant vector types")
       ELSE IF (lt # Vector \/ rt # Vector) /\ is_matching_labels_not_empty(ex)
       THEN Err("vector matching only allowed between vectors")
       ELSE Ok(ex)

check_ast_for_binary_expr(ex) ==
    LET op_display == token_display(ex.op)
    IN IF ~is_operator(ex.op)
       THEN {Err("binary expression does not support operator '"
                 \o op_display \o "'")}
       ELSE IF return_bool(ex) /\ ~is_comparison_operator(ex.op)
       THEN {Err("bool modifier can only be used on comparison operators")}
       ELSE IF /\ is_comparison_operator(ex.op)
               /\ value_type(ex.lhs) = Scalar
               /\ value_type(ex.rhs) = Scalar
               /\ ~return_bool(ex)
       THEN {Err("comparisons between scalars must use BOOL modifier")}
       ELSE IF is_matching_on(ex) /\ is_labels_joint(ex)
       THEN {IF IsSome(labels) /\ Len(Unwrap(labels)) > 0
             THEN Err("label '" \o Unwrap(labels)[1]
                      \o "' must not occur in ON and GROUP clause at once")
             ELSE binary_expr_after_labels(ex)
             : labels \in intersect_labels(ex)}
       ELSE {binary_expr_after_labels(ex)}

check_ast_for_aggregate_expr(ex) ==
    LET op_display == token_display(ex.op)
        vector_check ==
            expect_type(Vector, Some(value_type(ex.expr)),
                        "aggregation expression")
        scalar_check ==
            expect_type(Scalar, map_value_type(ex.param),
                        "aggregation expression")
        string_check ==
            expect_type(String, map_value_type(ex.param),
                        "aggregation expression")
    IN IF ~is_aggregator(ex.op)
       THEN Err("aggregation operator expected in aggregation expression but got '"
                \o op_display \o "'")
       ELSE IF IsErr(vector_check)
       THEN Err(vector_check.err)
       ELSE IF ex.op \in {T_TOPK, T_BOTTOMK, T_QUANTILE} /\ IsErr(scalar_check)
       THEN Err(scalar_check.err)
       ELSE IF ex.op = T_COUNT_VALUES /\ IsErr(string_check)
       THEN Err(string_check.err)
       ELSE Ok(ex)

\* name.eq_ignore_ascii_case(lower), for the function names of the model
eq_ignore_ascii_case(name, lower) ==
    \/ name = lower
    \/ lower = "exp" /\ name \in {"EXP", "Exp"}
    \/ lower = "ln" /\ name \in {"LN", "Ln"}
    \/ lower = "log2" /\ name \in {"LOG2", "Log2"}
    \/ lower = "log10" /\ name \in {"LOG10", "Log10"}

arg_slot_first(func, i) == 1

\* the declared slot argument i is checked against: the last one for the
\* arguments past the declared types
arg_slot(func, i) ==
    IF i > Len(func.arg_types) THEN Len(func.arg_types) ELSE i

\* the type check of the arguments from index i on
RECURSIVE call_args_check(_, _)
call_args_check(ex, i) ==
    IF i > Len(ex.args)
    THEN Ok(ex)
    ELSE LET idx == arg_slot(ex.func, i)
             check == expect_type(ex.func.arg_types[idx],
                                  Some(value_type(ex.args[i])),
                                  "call to function '" \o ex.func.name \o "'")
         IN IF IsErr(check) THEN Err(check.err) ELSE call_args_check(ex, i + 1)

\* the text of usize::MAX, the value expected_args_len - 1 wraps to when
\* arg_types is empty and overflow checks are off
UsizeMaxText == "18446744073709551615"

\* The set of outcomes: expected_args_len - 1 is a usize subtraction, which
\* for a variadic function with no declared argument type aborts when the
\* build checks overflow and wraps to usize::MAX when it does not.
check_ast_for_call(ex) ==
    LET expected_args_len == Len(ex.func.arg_types)
        name == ex.func.name
        actual_args_len == Len(ex.args)
        expected_args_len_without_default == expected_args_len - 1
        first_val ==
            IF actual_args_len = 0 THEN None ELSE scalar_value(ex.args[1])
    IN IF ex.func.variadic /\ expected_args_len = 0
       THEN {Panic("attempt to subtract with overflow"),
             Err("expected at least " \o UsizeMaxText
                 \o " argument(s) in call to '" \o name \o "', got "
                 \o ToString(actual_args_len))}
       ELSE IF ex.func.variadic
               /\ expected_args_len_without_default > actual_args_len
       THEN {Err("expected at least "
                 \o ToString(expected_args_len_without_default)
                 \o " argument(s) in call to '" \o name \o "', got "
                 \o ToString(actual_args_len))}
       ELSE IF /\ ex.func.variadic
               /\ actual_args_len > expected_args_len
               /\ name # "label_join"
       THEN {Err("expected at most " \o ToString(expected_args_len)
                 \o " argument(s) in call to '" \o name \o "', got "
                 \o ToString(actual_args_len))}
       ELSE IF ~ex.func.variadic /\ expected_args_len # actual_args_len
       THEN {Err("expected " \o ToString(expected_args_len)
                 \o " argument(s) in call to '" \o name \o "', got "
                 \o ToString(actual_args_len))}
       ELSE IF /\ eq_ignore_ascii_case(name, "exp")
               /\ IsSome(first_val)
               /\ (f64_is_nan(Unwrap(first_val))
                   \/ f64_is_infinite(Unwrap(first_val)))
       THEN {Ok(ex)}
       ELSE IF /\ ~eq_ignore_ascii_case(name, "exp")
               /\ \/ eq_ignore_ascii_case(name, "ln")
                  \/ eq_ignore_ascii_case(name, "log2")
                  \/ eq_ignore_ascii_case(name, "log10")
               /\ IsSome(first_val)
               /\ \/ f64_is_nan(Unwrap(first_val))
                  \/ f64_is_infinite(Unwrap(first_val))
                  \/ f64_le_zero(Unwrap(first_val))
       THEN {Ok(ex)}
       ELSE {call_args_check(ex, 1)}

check_ast_for_unary(ex) ==
    LET vt == value_type(ex.expr)
    IN IF vt # Scalar /\ vt # Vector
       THEN Err("unary expression only allowed on expressions of type scalar or vector, got "
                \o value_type_display(vt))
       ELSE Ok(ex)

check_ast_for_subquery(ex) ==
    LET vt == value_type(ex.expr)
    IN IF vt # Vector
       THEN Err("subquery is only allowed on vector, got "
                \o value_type_display(vt) \o " instead")
       ELSE Ok(ex)

check_ast_for_vector_selector_name_first(ex) ==
    LET du == SortTexts(find_matchers(ex.matchers, METRIC_NAME))
    IN IF Len(du) >= 2
       THEN Err("metric name must not be set twice: '" \o du[1] \o "' or '"
                \o du[2] \o "'")
       ELSE IF is_empty_matchers(ex.matchers)
       THEN Err("vector selector must contain at least one non-empty matcher")
       ELSE Ok(ex)

check_ast_for_vector_selector(ex) ==
    LET du == SortTexts(find_matchers(ex.matchers, METRIC_NAME))
    IN IF is_empty_matchers(ex.matchers)
       THEN Err("vector selector must contain at least one non-empty matcher")
       ELSE IF Len(du) >= 2
       THEN Err("metric name must not be set twice: '" \o du[1] \o "' or '"
                \o du[2] \o "'")
       ELSE Ok(ex)

check_ast(e) ==
    CASE e.kind = "Binary" -> check_ast_for_binary_expr(e)
      [] e.kind = "Aggregate" -> {check_ast_for_aggregate_expr(e)}
      [] e.kind = "Call" -> check_ast_for_call(e)
      [] e.kind = "Unary" -> {check_ast_for_unary(e)}
      [] e.kind = "Subquery" -> {check_ast_for_subquery(e)}
      [] e.kind = "VectorSelector" -> {check_ast_for_vector_selector(e)}
      [] e.kind \in {"Paren", "NumberLiteral", "StringLiteral",
                     "MatrixSelector", "Extension"} -> {Ok(e)}

----------------------------------------------------------------------------
(* Inputs of the builder session *)

NumVals == {Fin(1), NaN}

Durations == {1}

Steps == {Some(1)}

AtModifiers == {Start, At(1)}

Offsets == {Pos(1)}

\* the selectors the grammar hands to new_vector_selector: a named one
\* and one with a single matcher that accepts the empty string
SelectorInputs ==
    {[name |-> Some("foo"), matchers |-> {new_eq_metric_matcher("foo")}],
     [name |-> None, matchers |-> {Matcher("Equal", "a", "")}]}

Foo == VectorSelector(Some("foo"), {new_eq_metric_matcher("foo")}, None, None)

One == NumberLiteral(Fin(1))

Str == StringLiteral("s")

RightOperands == {One}

ParamOperands == {One}

BuildOps == {T_ADD, T_EQLC}

BuildModifiers == {None, Some(BinModifier(OneToOne, None, TRUE))}

AggregateOps == {T_SUM, T_TOPK, T_COUNT_VALUES, T_ADD}

AggregateModifiers == {Some(Include({"a"}))}

FnScalar == Function("scalar", <<Vector>>, FALSE, Scalar)

FnRound == Function("round", <<Vector, Scalar>>, TRUE, Vector)

BuildFunctions == {FnScalar, FnRound}

SeqsUpTo(S, n) == UNION {[1..k -> S] : k \in 0..n}

\* the argument lists built around the current node: it is the last
\* argument, parameters precede it
ArgLists(cur) ==
    {<<>>} \cup {p \o <<cur>> : p \in SeqsUpTo(ParamOperands, MaxArgs - 1)}

----------------------------------------------------------------------------
(* The builder session: the grammar driver holds the result of the last    *)
(* builder and feeds its node to the next one (and_then); an error ends    *)
(* the chain and consumes the node                                         *)

Cur == Unwrap(res.val)

CanWrap == IsOk(res) /\ Depth(Cur) < MaxDepth

Called(fn, args) == [fn |-> fn, args |-> args]

Fresh(r, fn, args) ==
    /\ res' = r
    /\ call' = Called(fn, args)
    /\ atCalls' = 0
    /\ offCalls' = 0

\* impl From<f64> for Expr
FromF64 == \E v \in NumVals : Fresh(Ok(NumberLiteral(v)), "from_f64", <<v>>)

\* impl From<&str> for Expr
FromStr == Fresh(Ok(Str), "from_str", <<"s">>)

\* a host-supplied Extension node
NewExtension ==
    \E t \in ValueType : Fresh(Ok(Extension(t)), "extension", <<t>>)

NewVectorSelector ==
    \E i \in SelectorInputs :
        Fresh(new_vector_selector(i.name, i.matchers), "new_vector_selector",
              <<i.name, i.matchers>>)

NewUnaryExpr ==
    /\ CanWrap
    /\ Fresh(new_unary_expr(Cur), "new_unary_expr", <<Cur>>)

NewSubqueryExpr ==
    /\ CanWrap
    /\ \E range \in Durations, step \in Steps :
          Fresh(new_subquery_expr(Cur, range, step), "new_subquery_expr",
                <<Cur, range, step>>)

NewParenExpr ==
    /\ CanWrap
    /\ Fresh(new_paren_expr(Cur), "new_paren_expr", <<Cur>>)

NewMatrixSelector ==
    /\ IsOk(res)
    /\ \E range \in Durations :
          Fresh(new_matrix_selector(Cur, range), "new_matrix_selector",
                <<Cur, range>>)

AtExpr ==
    /\ IsOk(res)
    /\ \E at \in AtModifiers :
          /\ res' = at_expr(Cur, at)
          /\ call' = Called("at_expr", <<Cur, at>>)
    /\ atCalls' = atCalls + 1
    /\ UNCHANGED offCalls

OffsetExpr ==
    /\ IsOk(res)
    /\ \E offset \in Offsets :
          /\ res' = offset_expr(Cur, offset)
          /\ call' = Called("offset_expr", <<Cur, offset>>)
    /\ offCalls' = offCalls + 1
    /\ UNCHANGED atCalls

NewCall ==
    /\ CanWrap
    /\ \E func \in BuildFunctions, args \in {<<Cur>>} :
          Fresh(new_call(func, args), "new_call", <<func, args>>)

NewBinaryExpr ==
    /\ CanWrap
    /\ \E op \in BuildOps, modifier \in BuildModifiers, rhs \in RightOperands :
          Fresh(new_binary_expr(Cur, op, modifier, rhs), "new_binary_expr",
                <<Cur, op, modifier, rhs>>)

NewAggregateExpr ==
    /\ CanWrap
    /\ \E op \in AggregateOps, modifier \in AggregateModifiers,
          args \in ArgLists(Cur) :
          Fresh(new_aggregate_expr(op, modifier, args), "new_aggregate_expr",
                <<op, modifier, args>>)

CheckAst ==
    /\ IsOk(res)
    /\ \E r \in check_ast(Cur) : res' = r
    /\ call' = Called("check_ast", <<Cur>>)
    /\ UNCHANGED <<atCalls, offCalls>>

Init ==
    /\ res = NoResult
    /\ call = Called("none", <<>>)
    /\ atCalls = 0
    /\ offCalls = 0

Next ==
    \/ FromF64
    \/ FromStr
    \/ NewExtension
    \/ NewVectorSelector
    \/ NewUnaryExpr
    \/ NewSubqueryExpr
    \/ NewParenExpr
    \/ NewMatrixSelector
    \/ AtExpr
    \/ OffsetExpr
    \/ NewCall
    \/ NewBinaryExpr
    \/ NewAggregateExpr
    \/ CheckAst

Spec == Init /\ [][Next]_vars

----------------------------------------------------------------------------
(* check_ast on trees built directly: every field of the nodes is public,  *)
(* and new_binary_expr takes any modifier                                  *)

Labels == {"a", "b"}

LabelSets == SUBSET Labels

Cards ==
    {OneToOne, ManyToMany}
    \cup {ManyToOne(l) : l \in LabelSets} \cup {OneToMany(l) : l \in LabelSets}

Matchings ==
    {None} \cup {Some(Include(l)) : l \in LabelSets}
    \cup {Some(Exclude(l)) : l \in LabelSets}

BinModifiers ==
    {None}
    \cup {Some(BinModifier(c, m, b)) :
            c \in Cards, m \in Matchings, b \in BOOLEAN}

\* operands of each value type, of several variants
CheckOperands ==
    {One, ParenExpr(One), BinaryExpr(T_ADD, One, One, None),
     Call(FnScalar, <<Foo>>),
     Foo, UnaryExpr(Foo),
     Str,
     MatrixSelector(Foo, 1),
     SubqueryExpr(Foo, None, None, 1, None),
     Extension(String)}

CheckOps == {T_ADD, T_EQLC, T_LAND, T_LUNLESS, T_SUM}

BinaryInputs ==
    {BinaryExpr(op, lhs, rhs, m) :
        op \in CheckOps, lhs \in CheckOperands, rhs \in CheckOperands,
        m \in BinModifiers}

AggregateInputs ==
    {AggregateExpr(op, e, param, m) :
        op \in {T_SUM, T_TOPK, T_BOTTOMK, T_QUANTILE, T_COUNT_VALUES, T_ADD},
        e \in CheckOperands,
        param \in {None} \cup {Some(p) : p \in CheckOperands},
        m \in {None, Some(Include({"a"}))}}

\* function descriptors: Function is a plain record with public fields, the
\* catalogue entries below and two a host can build (an upper-case name, a
\* variadic function declaring no argument type)
FnExp == Function("exp", <<Vector>>, FALSE, Vector)

FnExpUpper == Function("EXP", <<Vector>>, FALSE, Vector)

FnLn == Function("ln", <<Vector>>, FALSE, Vector)

FnLog2 == Function("Log2", <<Vector>>, FALSE, Vector)

FnLog10 == Function("log10", <<Vector>>, FALSE, Vector)

FnTime == Function("time", <<>>, FALSE, Scalar)

FnDaysInMonth == Function("days_in_month", <<Vector>>, TRUE, Vector)

FnLabelJoin ==
    Function("label_join", <<Vector, String, String, String>>, TRUE, Vector)

FnHostVariadic == Function("host_variadic", <<>>, TRUE, Vector)

CheckFunctions ==
    {FnExp, FnExpUpper, FnLn, FnLog2, FnLog10, FnScalar, FnTime, FnRound,
     FnDaysInMonth, FnLabelJoin, FnHostVariadic}

\* first arguments: the number literals the special cases tell apart, and
\* one operand of each value type
FirstArgs ==
    {NumberLiteral(NaN), NumberLiteral(Inf), NumberLiteral(f64_neg(Inf)),
     NumberLiteral(Fin(0)), NumberLiteral(Fin(-1)), One,
     ParenExpr(NumberLiteral(NaN)), Foo, Str, MatrixSelector(Foo, 1)}

RestArgs == {One, Foo, Str}

CallArgLists ==
    {<<>>}
    \cup {<<f>> \o rest :
            f \in FirstArgs, rest \in SeqsUpTo(RestArgs, MaxCallArgs - 1)}

CallInputs == {Call(f, args) : f \in CheckFunctions, args \in CallArgLists}

CheckInputs == BinaryInputs \cup AggregateInputs \cup CheckOperands

InitCheck ==
    /\ res \in {Ok(e) : e \in CheckInputs}
    /\ call = Called("none", <<>>)
    /\ atCalls = 0
    /\ offCalls = 0

NextCheck == CheckAst

SpecCheck == InitCheck /\ [][NextCheck]_vars

\* check_ast on the Calls
InitCall ==
    /\ res \in {Ok(e) : e \in CallInputs}
    /\ call = Called("none", <<>>)
    /\ atCalls = 0
    /\ offCalls = 0

NextCall == CheckAst

SpecCall == InitCall /\ [][NextCall]_vars

\* check_ast on the VectorSelectors over a pool of matchers
MatcherPool ==
    {new_eq_metric_matcher("foo"), new_eq_metric_matcher("bar"),
     new_eq_metric_matcher(""),
     Matcher("NotEqual", METRIC_NAME, ""), Matcher("Re", METRIC_NAME, ".*"),
     Matcher("Equal", "a", ""), Matcher("Equal", "a", "x"),
     Matcher("Re", "a", ".*")}

VectorSelectorInputs ==
    {VectorSelector(name, ms, None, None) :
        name \in {None, Some("foo")}, ms \in SUBSET MatcherPool}

InitSelector ==
    /\ res \in {Ok(e) : e \in VectorSelectorInputs}
    /\ call = Called("none", <<>>)
    /\ atCalls = 0
    /\ offCalls = 0

NextSelector == CheckAst

SpecSelector == InitSelector /\ [][NextSelector]_vars

----------------------------------------------------------------------------
(* AtModifier::try_from(secs: f64)                                         *)

\* largest finite input of the model, in tenths of a millisecond
MaxTenthMillis == 60

\* A finite f64 of seconds whose magnitude is m tenths of a millisecond, so
\* that secs * 1000 is m / 10 milliseconds; neg is the sign bit (-0.0 has it)
Seconds(sign, m) == [k |-> "fin", neg |-> sign, m |-> m]

\* f64::MAX and f64::MIN
F64Max(sign) == [k |-> "max", neg |-> sign, m |-> 0]

\* 1e20 and -1e20: finite, inside (f64::MIN, f64::MAX), and secs * 1000 is
\* above u64::MAX
F64Huge(sign) == [k |-> "huge", neg |-> sign, m |-> 0]

f64_is_sign_negative(secs) == secs.neg

f64_is_sign_positive(secs) == ~secs.neg

\* the digits after the decimal point of m tenths of a millisecond, in
\* seconds, without trailing zeros
FractionText(f) ==
    LET lead(n, width) ==
            IF width = 4 /\ n < 10 THEN "000" \o ToString(n)
            ELSE IF (width = 4 /\ n < 100) \/ (width = 3 /\ n < 10)
            THEN "00" \o ToString(n)
            ELSE IF (width = 4 /\ n < 1000) \/ (width = 3 /\ n < 100)
                    \/ (width = 2 /\ n < 10)
            THEN "0" \o ToString(n)
            ELSE ToString(n)
    IN IF f % 1000 = 0 THEN lead(f \div 1000, 1)
       ELSE IF f % 100 = 0 THEN lead(f \div 100, 2)
       ELSE IF f % 10 = 0 THEN lead(f \div 10, 3)
       ELSE lead(f, 4)

\* Display of an f64, as {secs} formats it
f64_display(secs) ==
    LET sign == IF secs.neg THEN "-" ELSE ""
    IN CASE secs.k = "nan" -> "NaN"
         [] secs.k = "inf" -> sign \o "inf"
         [] secs.k = "max" ->
                sign \o "17976931348623157" \o "0000000000000000000000000000000000000000000000000000000000000000000000000"
                \o "0000000000000000000000000000000000000000000000000000000000000000000000000"
                \o "0000000000000000000000000000000000000000000000000000000000000000000000000"
                \o "0000000000000000000000000000000000000000000000000000000000000000000000000"
         [] secs.k = "huge" -> sign \o "100000000000000000000"
         [] secs.k = "fin" ->
                sign \o ToString(secs.m \div 10000)
                \o (IF secs.m % 10000 = 0
                    THEN ""
                    ELSE "." \o FractionText(secs.m % 10000))

\* a u64 of milliseconds: an exact count, or u64::MAX
Millis(n) == [n |-> n, u64_max |-> FALSE]

U64Max == [n |-> 0, u64_max |-> TRUE]

\* (secs * 1000f64).round().abs() as u64: round is half away from zero, and
\* the cast saturates at u64::MAX
f64_millis_as_u64(secs) ==
    IF secs.k = "huge" THEN U64Max ELSE Millis((secs.m + 5) \div 10)

\* the SystemTime at distance d from UNIX_EPOCH
SystemTime(after, d) ==
    [after |-> after \/ (d = Millis(0)), d |-> d]

\* UNIX_EPOCH.checked_add(duration): the range of SystemTime is the
\* platform's. All of them hold the small times; a 64-bit count of seconds
\* (unix) holds UNIX_EPOCH + u64::MAX ms, a narrower one does not.
checked_add(duration) ==
    IF duration = U64Max
    THEN {Some(SystemTime(TRUE, duration)), None}
    ELSE {Some(SystemTime(TRUE, duration))}

checked_sub(duration) ==
    IF duration = U64Max
    THEN {Some(SystemTime(FALSE, duration)), None}
    ELSE {Some(SystemTime(FALSE, duration))}

\* the set of results, one for each platform's SystemTime
at_modifier_try_from_f64(secs) ==
    LET err_info ==
            "timestamp out of bounds for @ modifier: " \o f64_display(secs)
        milli == f64_millis_as_u64(secs)
        duration == milli
        sts == IF f64_is_sign_positive(secs)
               THEN checked_add(duration)
               ELSE checked_sub(duration)
    IN IF f64_is_nan(secs) \/ f64_is_infinite(secs) \/ secs.k = "max"
       THEN {Err(err_info)}
       ELSE {IF IsSome(st) THEN Ok(At(Unwrap(st))) ELSE Err(err_info) :
                st \in sts}

\* the seconds of test_valid_at_modifier, in tenths of a millisecond
TestSeconds == {10003000, 10009000, 10009991, 10009999}

SecondsInputs ==
    {NaN, Inf, f64_neg(Inf)}
    \cup {F64Max(sign) : sign \in BOOLEAN}
    \cup {F64Huge(sign) : sign \in BOOLEAN}
    \cup {Seconds(sign, m) :
            sign \in BOOLEAN, m \in (0..MaxTenthMillis) \cup TestSeconds}

InitAt ==
    /\ res = NoResult
    /\ call = Called("none", <<>>)
    /\ atCalls = 0
    /\ offCalls = 0

AtModifierTryFrom ==
    /\ res = NoResult
    /\ \E secs \in SecondsInputs :
          /\ res' \in at_modifier_try_from_f64(secs)
          /\ call' = Called("AtModifier::try_from", <<secs>>)
    /\ UNCHANGED <<atCalls, offCalls>>

NextAt == AtModifierTryFrom

SpecAt == InitAt /\ [][NextAt]_vars

----------------------------------------------------------------------------
(* Properties *)

SelectorKinds == {"VectorSelector", "MatrixSelector", "Subquery"}

\* the `at` and the `offset` a node carries (a MatrixSelector carries them
\* in its inner selector)
AtOf(e) == IF e.kind = "MatrixSelector" THEN e.vector_selector.at ELSE e.at

OffsetOf(e) ==
    IF e.kind = "MatrixSelector" THEN e.vector_selector.offset ELSE e.offset

AtTwiceMsg == "@ <timestamp> may not be set multiple times"

OffsetTwiceMsg == "offset may not be set multiple times"

AtKindMsg ==
    "@ modifier must be preceded by an vector selector or matrix selector or a subquery"

OffsetKindMsg ==
    "offset modifier must be preceded by an vector selector or matrix selector or a subquery"

C2_OnlySelectors ==
    /\ (call.fn = "at_expr" /\ call.args[1].kind \notin SelectorKinds) =>
          res = Err(AtKindMsg)
    /\ (call.fn = "offset_expr" /\ call.args[1].kind \notin SelectorKinds) =>
          res = Err(OffsetKindMsg)

\* offset_expr on a Paren that directly wraps a selector is refused
C2_Witness ==
    /\ call.fn = "offset_expr"
    /\ call.args[1].kind = "Paren"
    /\ call.args[1].expr.kind = "VectorSelector"
    /\ res = Err(OffsetKindMsg)

\* C3: new_matrix_selector(e, range) succeeds exactly when e is a
\* VectorSelector with neither offset nor at, and then wraps e unchanged
\* with the range; offset set gives "no offset modifiers allowed before
\* range" (also when at is set), only at set gives "no @ modifiers allowed
\* before range", any other variant "ranges only allowed for vector
\* selectors".
C3_MatrixSelector ==
    call.fn = "new_matrix_selector" =>
        LET e == call.args[1]
            range == call.args[2]
            isVS == e.kind = "VectorSelector"
        IN /\ IsOk(res) <=> (isVS /\ IsNone(e.offset) /\ IsNone(e.at))
           /\ IsOk(res) =>
                 /\ Cur.kind = "MatrixSelector"
                 /\ Cur.vector_selector = e
                 /\ Cur.range = range
                 /\ IsNone(Cur.vector_selector.offset)
                 /\ IsNone(Cur.vector_selector.at)
           /\ (isVS /\ IsSome(e.offset)) =>
                 res = Err("no offset modifiers allowed before range")
           /\ (isVS /\ IsNone(e.offset) /\ IsSome(e.at)) =>
                 res = Err("no @ modifiers allowed before range")
           /\ ~isVS => res = Err("ranges only allowed for vector selectors")

\* a selector with both offset and at reports the offset
C3_Witness ==
    /\ call.fn = "new_matrix_selector"
    /\ call.args[1].kind = "VectorSelector"
    /\ IsSome(call.args[1].offset)
    /\ IsSome(call.args[1].at)
    /\ res = Err("no offset modifiers allowed before range")

\* C4: new_unary_expr(e) returns an error for every operand whose value
\* type is String or Matrix, so no Unary node is built over an operand
\* whose value type is not Scalar or Vector.
\* (Stated of the operands the parser itself builds: it generates no
\* Extension node.)
C4_UnaryOperandType ==
    (call.fn = "new_unary_expr" /\ call.args[1].kind # "Extension") =>
        /\ value_type(call.args[1]) \in {String, Matrix} => IsErr(res)
        /\ (IsOk(res) /\ Cur.kind = "Unary") =>
              value_type(Cur.expr) \in {Scalar, Vector}

\* the result new_aggregate_expr is to return for (op, modifier, args)
AggregateContract(op, modifier, args) ==
    LET withParam == op \in {T_TOPK, T_BOTTOMK, T_QUANTILE, T_COUNT_VALUES}
        N == IF withParam THEN 2 ELSE 1
        M == Len(args)
    IN IF M = 0
       THEN Err("no arguments for aggregate expression '"
                \o token_display(op) \o "' provided")
       ELSE IF M # N
       THEN Err("wrong number of arguments for aggregate expression provided, expected "
                \o ToString(N) \o ", got " \o ToString(M))
       ELSE Ok([kind |-> "Aggregate", op |-> op, expr |-> args[M],
                param |-> IF withParam THEN <<args[1]>> ELSE <<>>,
                modifier |-> modifier])

\* C5: new_aggregate_expr with no argument reports "no arguments for
\* aggregate expression '<op>' provided"; otherwise it succeeds exactly when
\* the number of arguments is 2 for a parameterised aggregator and 1 for any
\* other op, else it reports "wrong number of arguments ... expected N, got
\* M"; on success the aggregated expression is the last argument and param
\* is the first argument for a parameterised aggregator, absent otherwise.
C5_AggregateArity ==
    call.fn = "new_aggregate_expr" =>
        res = AggregateContract(call.args[1], call.args[2], call.args[3])

\* topk(1, e) is built with param 1 and expr e
C5_Witness ==
    /\ call.fn = "new_aggregate_expr"
    /\ call.args[1] = T_TOPK
    /\ Len(call.args[3]) = 2
    /\ IsOk(res)
    /\ Cur.param = Some(One)
    /\ Cur.expr = call.args[3][2]

\* the input of the last check_ast
Checked == call.args[1]

CheckedBinary == call.fn = "check_ast" /\ Checked.kind = "Binary"

CheckedAggregate == call.fn = "check_ast" /\ Checked.kind = "Aggregate"

\* C6: a Binary with a set operator that check_ast accepts is returned with
\* a modifier of cardinality ManyToMany, whether the input had no modifier,
\* a OneToOne or a ManyToMany one; it has no group_left/group_right and no
\* Scalar operand.
C6_SetOperatorManyToMany ==
    (CheckedBinary /\ is_set_operator(Checked.op) /\ IsOk(res)) =>
        /\ Cur.kind = "Binary"
        /\ IsSome(Cur.modifier)
        /\ Unwrap(Cur.modifier).card = ManyToMany
        /\ value_type(Cur.lhs) # Scalar
        /\ value_type(Cur.rhs) # Scalar
        /\ IsSome(Checked.modifier) =>
              Unwrap(Checked.modifier).card \in {OneToOne, ManyToMany}

\* `foo and on(a) foo` with a OneToOne modifier comes back ManyToMany
C6_Witness ==
    /\ CheckedBinary
    /\ Checked.op = T_LAND
    /\ IsSome(Checked.modifier)
    /\ Unwrap(Checked.modifier).card = OneToOne
    /\ Unwrap(Checked.modifier).matching = Some(Include({"a"}))
    /\ IsOk(res)
    /\ Unwrap(Cur.modifier).card = ManyToMany

\* the labels in the order of String's Ord
LabelOrder == <<"a", "b">>

LabelRank(l) == CHOOSE i \in 1..Len(LabelOrder) : LabelOrder[i] = l

\* the lexicographically first label of a non-empty set
FirstLabel(S) == CHOOSE l \in S : \A k \in S : LabelRank(l) <= LabelRank(k)

\* the labels shared by the matching modifier and the group modifier
SharedLabels(m) == Unwrap(m.matching).labels \cap m.card.labels

\* the checks that precede the ON/GROUP label check let the node through
ReachesLabelCheck(ex) ==
    /\ is_operator(ex.op)
    /\ ~(return_bool(ex) /\ ~is_comparison_operator(ex.op))
    /\ ~(/\ is_comparison_operator(ex.op)
         /\ value_type(ex.lhs) = Scalar
         /\ value_type(ex.rhs) = Scalar
         /\ ~return_bool(ex))

\* C7: a Binary whose `on` labels and group_left/group_right labels share a
\* label is rejected with "label '<L>' must not occur in ON and GROUP clause
\* at once", L being the lexicographically first shared label.
C7_FirstSharedLabel ==
    (/\ CheckedBinary
     /\ ReachesLabelCheck(Checked)
     /\ IsSome(Checked.modifier)
     /\ Unwrap(Checked.modifier).matching # None
     /\ Unwrap(Unwrap(Checked.modifier).matching).kind = "Include"
     /\ SharedLabels(Unwrap(Checked.modifier)) # {}) =>
        res = Err("label '"
                  \o FirstLabel(SharedLabels(Unwrap(Checked.modifier)))
                  \o "' must not occur in ON and GROUP clause at once")

\* C8 as stated: in every accepted Binary of cardinality ManyToOne or
\* OneToMany the group labels and the labels of the matching modifier are
\* disjoint, for `on` and for `ignoring`.
C8_GroupDisjointAnyMatching ==
    (/\ CheckedBinary
     /\ IsOk(res)
     /\ IsSome(Cur.modifier)
     /\ Unwrap(Cur.modifier).card.kind \in {"ManyToOne", "OneToMany"}
     /\ IsSome(Unwrap(Cur.modifier).matching)) =>
        SharedLabels(Unwrap(Cur.modifier)) = {}

\* C8 amended: in every accepted Binary of cardinality ManyToOne or
\* OneToMany whose matching modifier is `on`, the group labels and the `on`
\* labels are disjoint.
C8_GroupDisjointOn ==
    (/\ CheckedBinary
     /\ IsOk(res)
     /\ IsSome(Cur.modifier)
     /\ Unwrap(Cur.modifier).card.kind \in {"ManyToOne", "OneToMany"}
     /\ IsSome(Unwrap(Cur.modifier).matching)
     /\ Unwrap(Unwrap(Cur.modifier).matching).kind = "Include") =>
        SharedLabels(Unwrap(Cur.modifier)) = {}

\* `foo + on(a) group_left(b) foo` is accepted
C8_Witness ==
    /\ CheckedBinary
    /\ IsOk(res)
    /\ Cur.modifier = Some(BinModifier(ManyToOne({"b"}), Some(Include({"a"})), FALSE))
    /\ Cur.op = T_ADD

ScalarComparison(ex) ==
    /\ is_comparison_operator(ex.op)
    /\ value_type(ex.lhs) = Scalar
    /\ value_type(ex.rhs) = Scalar

\* the bool modifier is set
BoolSet(ex) == IsSome(ex.modifier) /\ Unwrap(ex.modifier).return_bool

ScalarBoolMsg == "comparisons between scalars must use BOOL modifier"

\* C9 as stated: a comparison between two Scalar operands is accepted
\* exactly when the bool modifier is set; without it the result is
\* "comparisons between scalars must use BOOL modifier", with it the
\* accepted node has value type Scalar.
C9_ScalarComparisonIffBool ==
    (CheckedBinary /\ ScalarComparison(Checked)) =>
        /\ IsOk(res) <=> BoolSet(Checked)
        /\ ~BoolSet(Checked) => res = Err(ScalarBoolMsg)
        /\ IsOk(res) => value_type(Cur) = Scalar

\* C9 amended: a comparison between two Scalar operands is accepted exactly
\* when the bool modifier is set and the modifier has no non-empty on or
\* ignoring label list; without bool the result is "comparisons between
\* scalars must use BOOL modifier", and an accepted node has value type
\* Scalar.
C9_ScalarComparisonBool ==
    (CheckedBinary /\ ScalarComparison(Checked)) =>
        /\ IsOk(res) <=>
              /\ BoolSet(Checked)
              /\ \/ IsNone(Unwrap(Checked.modifier).matching)
                 \/ Unwrap(Unwrap(Checked.modifier).matching).labels = {}
        /\ ~BoolSet(Checked) => res = Err(ScalarBoolMsg)
        /\ IsOk(res) => value_type(Cur) = Scalar

\* `(1) == bool 1` is accepted and is a Scalar
C9_Witness ==
    /\ CheckedBinary
    /\ ScalarComparison(Checked)
    /\ Checked.lhs.kind = "Paren"
    /\ Checked.modifier = Some(BinModifier(OneToOne, None, TRUE))
    /\ IsOk(res)
    /\ value_type(Cur) = Scalar

\* C10: every Aggregate that check_ast accepts has an aggregator op, an
\* aggregated expression of value type Vector, a Scalar param for topk,
\* bottomk and quantile and a String param for count_values; an Aggregate
\* with one of these four ops and no param is rejected.
C10_AcceptedAggregate ==
    CheckedAggregate =>
        /\ IsOk(res) =>
              /\ Cur.op \in {T_SUM, T_TOPK, T_BOTTOMK, T_QUANTILE, T_COUNT_VALUES}
              /\ value_type(Cur.expr) = Vector
              /\ Cur.op \in {T_TOPK, T_BOTTOMK, T_QUANTILE} =>
                    IsSome(Cur.param) /\ value_type(Unwrap(Cur.param)) = Scalar
              /\ Cur.op = T_COUNT_VALUES =>
                    IsSome(Cur.param) /\ value_type(Unwrap(Cur.param)) = String
        /\ (/\ Checked.op \in {T_TOPK, T_BOTTOMK, T_QUANTILE, T_COUNT_VALUES}
            /\ IsNone(Checked.param)) => IsErr(res)

\* quantile(scalar(foo), foo) is accepted
C10_Witness ==
    /\ CheckedAggregate
    /\ Checked.op = T_QUANTILE
    /\ Checked.param = Some(Call(FnScalar, <<Foo>>))
    /\ IsOk(res)

CheckedCall == call.fn = "check_ast" /\ Checked.kind = "Call"

\* the arities the function descriptor admits: E declared argument types,
\* A arguments
ArityAdmitted(func, A) ==
    LET E == Len(func.arg_types)
    IN IF func.variadic
       THEN E - 1 <= A /\ (A <= E \/ func.name = "label_join")
       ELSE A = E

ArityMsg(func, A) ==
    LET E == Len(func.arg_types)
        tail == " argument(s) in call to '" \o func.name \o "', got "
                \o ToString(A)
    IN IF func.variadic /\ A < E - 1
       THEN "expected at least " \o ToString(E - 1) \o tail
       ELSE IF func.variadic
       THEN "expected at most " \o ToString(E) \o tail
       ELSE "expected " \o ToString(E) \o tail

ArityMsgs(func, A) ==
    LET E == Len(func.arg_types)
        tail == " argument(s) in call to '" \o func.name \o "', got "
                \o ToString(A)
    IN {"expected at least " \o ToString(E - 1) \o tail,
        "expected at least " \o UsizeMaxText \o tail,
        "expected at most " \o ToString(E) \o tail,
        "expected " \o ToString(E) \o tail}

\* C11: for every function descriptor and every argument list, check_ast on
\* the Call returns a result (it never aborts); an arity the descriptor
\* admits draws no arity diagnostic, and an arity it does not admit draws
\* the diagnostic of its case, whatever the arguments are (also when the
\* exp/ln early accept or a type error would apply).
C11_CallArity ==
    CheckedCall =>
        LET func == Checked.func
            A == Len(Checked.args)
        IN /\ res.tag \in {"Ok", "Err"}
           /\ ArityAdmitted(func, A) => res.err \notin ArityMsgs(func, A)
           /\ ~ArityAdmitted(func, A) => res = Err(ArityMsg(func, A))

\* the declared type of the slot of argument i, the last slot for i > E
SlotType(func, i) ==
    func.arg_types[IF i > Len(func.arg_types) THEN Len(func.arg_types) ELSE i]

Mismatches(ex) ==
    {i \in 1..Len(ex.args) :
        value_type(ex.args[i]) # SlotType(ex.func, i)}

FirstMismatch(ex) ==
    CHOOSE i \in Mismatches(ex) : \A j \in Mismatches(ex) : i <= j

TypeMsg(ex, i) ==
    "expected type " \o value_type_display(SlotType(ex.func, i))
    \o " in call to function '" \o ex.func.name \o "', got "
    \o value_type_display(value_type(ex.args[i]))

\* the outcome of the per-argument type check alone
TypeCheckOutcome(ex) ==
    IF Mismatches(ex) = {}
    THEN Ok(ex)
    ELSE Err(TypeMsg(ex, FirstMismatch(ex)))

\* the calls of the early accept: exp of a NaN or infinite literal, ln, log2
\* or log10 of a NaN, infinite, zero or negative literal, in any letter case
SpecialCase(ex) ==
    /\ Len(ex.args) >= 1
    /\ ex.args[1].kind = "NumberLiteral"
    /\ LET v == ex.args[1].val
           name == ex.func.name
       IN \/ /\ name \in {"exp", "EXP", "Exp"}
             /\ v.k \in {"nan", "inf"}
          \/ /\ name \in {"ln", "LN", "Ln", "log2", "LOG2", "Log2",
                           "log10", "LOG10", "Log10"}
             /\ \/ v.k \in {"nan", "inf"}
                \/ v.k = "fin" /\ (v.neg \/ v.m = 0)

\* C12 as stated: in every Call check_ast accepts each argument has the
\* declared type of its slot, and with an admitted arity the first
\* mismatching argument draws the type diagnostic.
C12_ArgTypesMatch ==
    CheckedCall =>
        /\ IsOk(res) => Mismatches(Checked) = {}
        /\ ArityAdmitted(Checked.func, Len(Checked.args))
           /\ Mismatches(Checked) # {}
           => res = Err(TypeMsg(Checked, FirstMismatch(Checked)))

\* C12 amended: the same of every Call outside the early accept of
\* exp/ln/log2/log10.
C12_ArgTypesMatchUnlessSpecial ==
    CheckedCall /\ ~SpecialCase(Checked) =>
        /\ IsOk(res) => Mismatches(Checked) = {}
        /\ ArityAdmitted(Checked.func, Len(Checked.args))
           /\ Mismatches(Checked) # {}
           => res = Err(TypeMsg(Checked, FirstMismatch(Checked)))

\* an accepted call with more arguments than declared types
C12_Witness ==
    /\ CheckedCall
    /\ IsOk(res)
    /\ ~SpecialCase(Checked)
    /\ Len(Checked.args) > Len(Checked.func.arg_types)

\* C13: with an admitted arity, a Call of the early accept is returned
\* unchanged whatever the types of its arguments are, and every other Call
\* with a first argument gets the outcome of the per-argument type check.
C13_EarlyAccept ==
    /\ CheckedCall
    /\ Len(Checked.args) >= 1
    /\ ArityAdmitted(Checked.func, Len(Checked.args))
    => IF SpecialCase(Checked)
       THEN res = Ok(Checked)
       ELSE res = TypeCheckOutcome(Checked)

\* log of a zero literal, accepted although a Scalar stands in a Vector slot
C13_Witness ==
    /\ CheckedCall
    /\ Checked.func.name = "Log2"
    /\ Checked.args = <<NumberLiteral(Fin(0))>>
    /\ Mismatches(Checked) # {}
    /\ res = Ok(Checked)

CheckedVectorSelector ==
    call.fn = "check_ast" /\ Checked.kind = "VectorSelector"

\* the textual forms of the __name__ matchers
NameTexts(ms) == {matcher_display(m) : m \in {x \in ms : x.name = "__name__"}}

LeastText(S) == CHOOSE t \in S : \A u \in S : TextRank(t) <= TextRank(u)

EmptySelectorMsg ==
    "vector selector must contain at least one non-empty matcher"

NameTwiceMsg(ms) ==
    LET m0 == LeastText(NameTexts(ms))
        m1 == LeastText(NameTexts(ms) \ {m0})
    IN "metric name must not be set twice: '" \o m0 \o "' or '" \o m1 \o "'"

\* C14: check_ast on a VectorSelector rejects a selector with no matcher or
\* whose matchers all accept the empty string; otherwise one with two or more
\* __name__ matchers, naming the first two of their sorted textual forms;
\* otherwise it returns the selector unchanged. The empty-matcher rejection
\* comes first when both apply.
C14_VectorSelectorCheck ==
    CheckedVectorSelector =>
        LET ms == Checked.matchers
        IN IF \A x \in ms : matcher_is_match_empty(x)
           THEN res = Err(EmptySelectorMsg)
           ELSE IF Cardinality(NameTexts(ms)) >= 2
           THEN res = Err(NameTwiceMsg(ms))
           ELSE res = Ok(Checked)

\* three __name__ matchers and a non-empty one: the two least texts are named
C14_Witness ==
    /\ CheckedVectorSelector
    /\ Cardinality(NameTexts(Checked.matchers)) = 3
    /\ new_eq_metric_matcher("foo") \in Checked.matchers
    /\ Matcher("Re", METRIC_NAME, ".*") \in Checked.matchers
    /\ new_eq_metric_matcher("") \in Checked.matchers
    /\ res = Err("metric name must not be set twice: '__name__=\"\"' or '__name__=\"foo\"'")

CheckedMatrixSelector ==
    call.fn = "check_ast" /\ Checked.kind = "MatrixSelector"

\* C15: the VectorSelector inside a MatrixSelector that check_ast accepts has
\* a matcher that does not accept the empty string, and at most one
\* __name__ matcher.
C15_MatrixSelectorInner ==
    CheckedMatrixSelector /\ IsOk(res) =>
        LET ms == Cur.vector_selector.matchers
        IN /\ \E x \in ms : ~matcher_is_match_empty(x)
           /\ Cardinality(NameTexts(ms)) <= 1

\* the child nodes of a node
Children(e) ==
    CASE e.kind \in {"Paren", "Unary", "Subquery"} -> {e.expr}
      [] e.kind = "Binary" -> {e.lhs, e.rhs}
      [] e.kind = "Aggregate" ->
            {e.expr} \cup {e.param[i] : i \in 1..Len(e.param)}
      [] e.kind = "Call" -> {e.args[i] : i \in 1..Len(e.args)}
      [] e.kind = "MatrixSelector" -> {e.vector_selector}
      [] OTHER -> {}

\* a post-order traversal applying the per-variant check to every node
RECURSIVE PostOrderAccepts(_)
PostOrderAccepts(e) ==
    /\ \A c \in Children(e) : PostOrderAccepts(c)
    /\ \E r \in check_ast(e) : IsOk(r)

RECURSIVE Nodes(_)
Nodes(e) == {e} \cup UNION {Nodes(c) : c \in Children(e)}

\* C16: check_ast at the root of a tree the builders assembled accepts
\* exactly when the post-order traversal of the per-variant checks accepts;
\* every Subquery of an accepted tree has a Vector operand and every Unary a
\* Scalar or Vector operand, at any depth.
C16_RecursiveCheck ==
    call.fn = "check_ast" =>
        /\ IsOk(res) <=> PostOrderAccepts(Checked)
        /\ IsOk(res) =>
              \A n \in Nodes(Cur) :
                /\ n.kind = "Subquery" => value_type(n.expr) = Vector
                /\ n.kind = "Unary" => value_type(n.expr) \in {Scalar, Vector}

\* the rule of section 3 for one node, given the value types of its operands
TypeRule(n, t) ==
    CASE n.kind \in {"Aggregate", "VectorSelector"} -> t = Vector
      [] n.kind \in {"Subquery", "MatrixSelector"} -> t = Matrix
      [] n.kind = "NumberLiteral" -> t = Scalar
      [] n.kind = "StringLiteral" -> t = String
      [] n.kind \in {"Unary", "Paren"} -> t = value_type(n.expr)
      [] n.kind = "Call" -> t = n.func.return_type
      [] n.kind = "Extension" -> t = n.value_type
      [] n.kind = "Binary" ->
            /\ t \in {Scalar, Vector}
            /\ t = Scalar <=>
                  value_type(n.lhs) = Scalar /\ value_type(n.rhs) = Scalar

ConvertedSeconds == call.fn = "AtModifier::try_from"

\* C18: NaN, the infinities, f64::MAX and f64::MIN give an error; every other
\* secs gives At(t) with t at round(|secs| * 1000) milliseconds from
\* UNIX_EPOCH, after it for secs >= 0 and before it for secs < 0; a secs
\* whose time is outside the system-time representation gives an error,
\* never a truncated time.
C18_AtFromSeconds ==
    ConvertedSeconds =>
        LET secs == call.args[1]
        IN IF secs.k \in {"nan", "inf", "max", "huge"}
           THEN IsErr(res)
           ELSE res = Ok(At([after |-> ~secs.neg \/ secs.m < 5,
                             d |-> [n |-> (secs.m + 5) \div 10,
                                    u64_max |-> FALSE]]))

\* the modifier of a Binary, the default one when it has none
ModifierOf(ex) ==
    IF IsSome(ex.modifier) THEN Unwrap(ex.modifier) ELSE BinModifier_default

OnLabels(ex) ==
    IF IsSome(ModifierOf(ex).matching)
       /\ Unwrap(ModifierOf(ex).matching).kind = "Include"
    THEN Unwrap(ModifierOf(ex).matching).labels
    ELSE {}

MatchingLabels(ex) ==
    IF IsSome(ModifierOf(ex).matching)
    THEN Unwrap(ModifierOf(ex).matching).labels
    ELSE {}

\* the binary checks a node violates, numbered in the order of the claim
\* (check 5 of the claim is 5 and 6 here, its checks 6 and 7 are 7 and 8)
ViolatedChecks(ex) ==
    LET lt == value_type(ex.lhs)
        rt == value_type(ex.rhs)
    IN {i \in 1..8 :
          CASE i = 1 -> ~is_operator(ex.op)
            [] i = 2 -> BoolSet(ex) /\ ~is_comparison_operator(ex.op)
            [] i = 3 -> ScalarComparison(ex) /\ ~BoolSet(ex)
            [] i = 4 -> OnLabels(ex) \cap ModifierOf(ex).card.labels # {}
            [] i = 5 -> is_set_operator(ex.op) /\ (lt = Scalar \/ rt = Scalar)
            [] i = 6 -> /\ is_set_operator(ex.op)
                        /\ lt = Vector /\ rt = Vector
                        /\ ModifierOf(ex).card.kind \in {"ManyToOne", "OneToMany"}
            [] i = 7 -> lt \notin {Scalar, Vector} \/ rt \notin {Scalar, Vector}
            [] i = 8 -> (lt # Vector \/ rt # Vector) /\ MatchingLabels(ex) # {}}

\* the diagnostics of check i
CheckDiagnostics(ex, i) ==
    CASE i = 1 -> {"binary expression does not support operator '"
                   \o token_display(ex.op) \o "'"}
      [] i = 2 -> {"bool modifier can only be used on comparison operators"}
      [] i = 3 -> {ScalarBoolMsg}
      [] i = 4 -> {"label '" \o l \o "' must not occur in ON and GROUP clause at once" :
                     l \in OnLabels(ex) \cap ModifierOf(ex).card.labels}
      [] i = 5 -> {"set operator '" \o token_display(ex.op)
                   \o "' not allowed in binary scalar expression"}
      [] i = 6 -> {"no grouping allowed for '" \o token_display(ex.op)
                   \o "' operation"}
      [] i = 7 -> {"binary expression must contain only scalar and instant vector types"}
      [] i = 8 -> {"vector matching only allowed between vectors"}

EarliestViolated(ex) ==
    CHOOSE i \in ViolatedChecks(ex) : \A j \in ViolatedChecks(ex) : i <= j

\* C19: a Binary that violates one or more of the binary checks is rejected
\* with the diagnostic of the earliest violated one in the fixed order:
\* operator class, bool on a non-comparison, scalar comparison without bool,
\* label shared by ON and GROUP, set operator with a Scalar operand, set
\* operator with group_left/group_right between vectors, operand neither
\* Scalar nor Vector, matching labels when not both sides are Vector.
C19_EarliestDiagnostic ==
    CheckedBinary /\ ViolatedChecks(Checked) # {} =>
        /\ IsErr(res)
        /\ res.err \in CheckDiagnostics(Checked, EarliestViolated(Checked))

\* a set operator with on(a) group_left(a) between vectors draws the
\* shared-label diagnostic, not "no grouping allowed"
C19_Witness ==
    /\ CheckedBinary
    /\ Checked.op = T_LAND
    /\ Checked.modifier
         = Some(BinModifier(ManyToOne({"a"}), Some(Include({"a"})), FALSE))
    /\ {4, 6} \subseteq ViolatedChecks(Checked)
    /\ res = Err("label 'a' must not occur in ON and GROUP clause at once")

\* the input with only the cardinality of a set operator changed
CardinalityNormalised(e) ==
    IF e.kind = "Binary" /\ is_set_operator(e.op)
    THEN [e EXCEPT !.modifier = Some([ModifierOf(e) EXCEPT !.card = ManyToMany])]
    ELSE e

\* C20: the tree check_ast returns for an accepted input is the input, but
\* for the cardinality of a set-operator Binary, which is ManyToMany (its
\* matching labels, return_bool, operator and operands are the input's);
\* check_ast applied to the returned tree returns it unchanged.
C20_OnlyCardinalityChanges ==
    call.fn = "check_ast" /\ IsOk(res) =>
        /\ Cur = CardinalityNormalised(Checked)
        /\ check_ast(Cur) = {Ok(Cur)}

\* a set operator with on(a) and cardinality OneToOne: the cardinality is
\* upgraded, on(a) is kept
C20_Witness ==
    /\ CheckedBinary
    /\ Checked.op = T_LUNLESS
    /\ Checked.modifier
         = Some(BinModifier(OneToOne, Some(Include({"a"})), FALSE))
    /\ IsOk(res)
    /\ Cur.modifier = Some(BinModifier(ManyToMany, Some(Include({"a"})), FALSE))
    /\ Cur.lhs = Checked.lhs /\ Cur.rhs = Checked.rhs /\ Cur.op = Checked.op

\* the node with its `at`, or its `offset`, replaced
WithAt(e, a) ==
    IF e.kind = "MatrixSelector"
    THEN [e EXCEPT !.vector_selector.at = a]
    ELSE [e EXCEPT !.at = a]

WithOffset(e, o) ==
    IF e.kind = "MatrixSelector"
    THEN [e EXCEPT !.vector_selector.offset = o]
    ELSE [e EXCEPT !.offset = o]

\* r.and_then(|e| f(e)) for the two modifiers
ThenOffset(r, offset) == IF IsOk(r) THEN offset_expr(Unwrap(r.val), offset) ELSE r

ThenAt(r, at) == IF IsOk(r) THEN at_expr(Unwrap(r.val), at) ELSE r

\* C21: on a VectorSelector, MatrixSelector or Subquery a successful at_expr
\* changes the `at` field only and a successful offset_expr the `offset`
\* field only; whether one succeeds is the same whatever the other field
\* holds; and @ then offset gives the node that offset then @ gives.
C21_AtOffsetIndependent ==
    /\ (call.fn = "at_expr" /\ IsOk(res)) =>
          /\ AtOf(Cur) = Some(call.args[2])
          /\ OffsetOf(Cur) = OffsetOf(call.args[1])
          /\ WithAt(Cur, None) = WithAt(call.args[1], None)
    /\ (call.fn = "offset_expr" /\ IsOk(res)) =>
          /\ OffsetOf(Cur) = Some(call.args[2])
          /\ AtOf(Cur) = AtOf(call.args[1])
          /\ WithOffset(Cur, None) = WithOffset(call.args[1], None)
    /\ (IsOk(res) /\ Cur.kind \in SelectorKinds) =>
          \A at \in AtModifiers, offset \in Offsets :
            /\ \A o \in {None, Some(offset)} :
                  IsOk(at_expr(WithOffset(Cur, o), at)) <=> IsOk(at_expr(Cur, at))
            /\ \A a \in {None, Some(at)} :
                  IsOk(offset_expr(WithAt(Cur, a), offset))
                  <=> IsOk(offset_expr(Cur, offset))
            /\ LET at_first == ThenOffset(at_expr(Cur, at), offset)
                   offset_first == ThenAt(offset_expr(Cur, offset), at)
               IN /\ IsOk(at_first) <=> IsOk(offset_first)
                  /\ IsOk(at_first) => at_first = offset_first

\* a Subquery that took offset and then @: the node is the one @ and then
\* offset give
C21_Witness ==
    /\ call.fn = "at_expr"
    /\ call.args[1].kind = "Subquery"
    /\ IsSome(OffsetOf(call.args[1]))
    /\ IsOk(res)
    /\ res = ThenOffset(at_expr(WithOffset(call.args[1], None), call.args[2]),
                        Unwrap(OffsetOf(call.args[1])))

============================================================================
